---- MODULE Spec2Model ----
(***************************************************************************)
(* Rumble Live Ops, background service worker: the DirectVideoApplyJob     *)
(* runner (bulk apply / clear of playlists over a list of video URLs).     *)
(*                                                                         *)
(* The runner keeps one module-level variable `job`.  Everything else it   *)
(* touches lives in the browser: the hidden tab, the tabs.onUpdated and    *)
(* runtime.onMessage listener lists, the pending setTimeout timers, and    *)
(* the callbacks of chrome.tabs.create / chrome.scripting.executeScript    *)
(* that have been requested and not yet run.  All callbacks read the       *)
(* module-level `job` at the time they run, not the job that requested     *)
(* them.  A callback that dereferences `job` while it is null throws a     *)
(* TypeError: the callback stops there and changes nothing further.        *)
(***************************************************************************)
EXTENDS Integers, Sequences, FiniteSets, TLC

(* ------------------------------ bounds --------------------------------- *)
MaxStarts  == 2   \* start() calls in one behaviour
MaxReloads == 1   \* extra loads (redirect / reload) of a hidden tab
MaxCloses  == 1   \* hidden tabs closed by something outside the runner

(* ------------------------------- URLs ---------------------------------- *)
\* A URL string is modelled by the parts the normalisation looks at:
\*   kind    "abs"  an absolute URL that `new URL(u)` parses,
\*           "rel"  a path that parses only against the base,
\*           "bad"  a string that `new URL` rejects even with the base,
\*   vid     which video page it names, query / hash: whether the string
\*   carries a ?query / #fragment, slashes: trailing slashes of the path.
Url(k, v, q, h, sl) ==
    [kind |-> k, vid |-> v, query |-> q, hash |-> h, slashes |-> sl]

NoUrl == Url("none", 0, FALSE, FALSE, 0)

toAbs(u) ==
    IF u.kind = "rel" THEN [u EXCEPT !.kind = "abs"] ELSE u

\* stripParams without the final replace(/\/+$/, '')
stripParams_KeepsSlashes(u) ==
    IF u.kind = "abs"
    THEN [u EXCEPT !.query = FALSE, !.hash = FALSE]
    ELSE u

stripParams(u) ==
    IF u.kind = "abs"
    THEN [u EXCEPT !.query = FALSE, !.hash = FALSE, !.slashes = 0]
    ELSE \* catch branch: only slashes at the very end of the string go
         IF u.query \/ u.hash THEN u ELSE [u EXCEPT !.slashes = 0]

RECURSIVE Unique(_)
\* Array.from(new Set(abs)): first occurrences, in order
Unique(s) ==
    IF s = <<>> THEN <<>>
    ELSE LET front == Unique(SubSeq(s, 1, Len(s) - 1))
             x     == s[Len(s)]
         IN  IF \E i \in 1..Len(front) : front[i] = x
             THEN front ELSE Append(front, x)

Normalize(videoUrls) ==
    Unique([i \in 1..Len(videoUrls) |-> stripParams(toAbs(videoUrls[i]))])

(* ------------------------ playlist names and ids ----------------------- *)
MaxText  == 2   \* different playlist titles (ignoring case and padding)
MaxNames == 2   \* names in one request
MaxDir   == 2   \* entries of the cached playlist directory

\* A title or name string: text = 0 is the empty text, upper: written with
\* capitals, pad: surrounded by white space.
Name(t, u, pd) == [text |-> t, upper |-> u, pad |-> pd]

Names ==
    {Name(t, v[1], v[2]) :
        t \in 1..MaxText,
        v \in {<<FALSE, FALSE>>, <<TRUE, FALSE>>, <<FALSE, TRUE>>}}
    \cup {Name(0, FALSE, FALSE), Name(0, FALSE, TRUE)}

\* (s || '').trim().toLowerCase() with the capitals kept
trimLower_KeepsCase(x) == [x EXCEPT !.pad = FALSE]

\* (s || '').trim().toLowerCase()
trimLower(x) == Name(x.text, FALSE, FALSE)

\* Boolean(s) of a trimmed string
NonEmpty(x) == x.text # 0

\* ids as stored: "" when the scraper found none
DirIds == {"", "pl_1", "pl_2"}

RECURSIVE SeqsUpTo(_, _)
SeqsUpTo(S, n) ==
    IF n = 0 THEN {<<>>}
    ELSE LET shorter == SeqsUpTo(S, n - 1)
         IN  shorter \cup {Append(q, x) : q \in shorter, x \in S}

Directories ==
    SeqsUpTo({[title |-> t, id |-> i] : t \in Names, i \in DirIds}, MaxDir)

\* new Map(pairs).get(key): the last pair with that key wins
MapGet(dir, key) ==
    LET hits == {i \in 1..Len(dir) : trimLower(dir[i].title) = key}
    IN  IF hits = {} THEN ""
        ELSE dir[CHOOSE i \in hits : \A k \in hits : k <= i].id

\* content script, resolveIdsFromNames(nameList) against the stored
\* userPlaylists
resolveIdsFromNames(nameList, userPlaylists) ==
    LET names == Unique(SelectSeq([i \in 1..Len(nameList) |->
                                       trimLower(nameList[i])], NonEmpty))
        got   == [i \in 1..Len(names) |-> MapGet(userPlaylists, names[i])]
        IsId(x) == x # ""
    IN  Unique(SelectSeq(got, IsId))

(* ------------------------------ payloads ------------------------------- *)
Payload(ids, names, urls, clear) ==
    [playlistIds |-> ids, playlistNames |-> names, videoUrls |-> urls,
     clearAll |-> clear, debugKeepTab |-> FALSE]

V1      == Url("rel", 1, FALSE, FALSE, 0)   \* "/v1"
V1Query == Url("abs", 1, TRUE, FALSE, 1)    \* "https://rumble.com/v1/?a=b"
V2      == Url("abs", 2, FALSE, FALSE, 0)   \* "https://rumble.com/v2"
V3      == Url("rel", 3, FALSE, TRUE, 0)    \* "/v3#t"
Fav     == Name(1, TRUE, FALSE)             \* "My Favorites"

\* The payloads the two callers (options page, clearPlaylistsFromVideos)
\* send; neither sets debugKeepTab.
Payloads ==
    { Payload(<<>>, <<>>, <<>>, TRUE),                    \* no videos
      Payload(<<>>, <<>>, <<V1>>, FALSE),                 \* Set, no playlist
      Payload(<<>>, <<Fav>>, <<V1, V1Query>>, FALSE)    ,   \* Set by name, dup
      Payload(<<"pl_1">>, <<>>, <<V1, V2>>, FALSE),       \* Set by id
      Payload(<<>>, <<>>, <<V1, V2, V3>>, TRUE) }         \* Clear, 3 videos

(* ------------------------------- state --------------------------------- *)
VARIABLES
    job,          \* the runner's `let job` (NoJob models null)
    tabs,         \* hidden tabs ever created; tab id = index
    updListener,  \* onUpdated is registered on chrome.tabs.onUpdated
    handlers,     \* job.onWorkerMsg closures registered on runtime.onMessage
    timers,       \* pending setTimeout timers
    events,       \* playlist-apply-* messages sent since the last start()
    injecting,    \* executeScript calls whose callback has not run yet
    creating,     \* tabs.create calls whose callback has not run yet
    starts,       \* start() calls so far
    reloads,      \* extra loads so far
    closes,       \* external closures so far
    streamer,     \* Streamer Mode bookkeeping of one account tab
    call,         \* one call of a pure helper: its argument and result
    harvest,      \* offscreen document, the two harvests, the tab scrape
    debounce      \* __RLO_DEBOUNCE and its timers

jobVars == <<job, tabs, updListener, handlers, timers, events, injecting,
             creating, starts, reloads, closes>>

vars == <<job, tabs, updListener, handlers, timers, events, injecting,
          creating, starts, reloads, closes, streamer, call, harvest,
          debounce>>

NoJob ==
    [id |-> 0, playlistIds |-> <<>>, playlistNames |-> <<>>,
     clearAll |-> FALSE, queue |-> <<>>, total |-> 0, done |-> 0,
     currentUrl |-> NoUrl, tabId |-> 0, debugKeepTab |-> FALSE,
     videoTimer |-> 0, onWorkerMsg |-> 0]

HasJob == job.id # 0

\* The part of the state the runner's own functions read and write.
Cur ==
    [job |-> job, tabs |-> tabs, updListener |-> updListener,
     handlers |-> handlers, timers |-> timers, events |-> events]

Commit(s) ==
    /\ job' = s.job
    /\ tabs' = s.tabs
    /\ updListener' = s.updListener
    /\ handlers' = s.handlers
    /\ timers' = s.timers
    /\ events' = s.events

(* --------------------------- browser pieces ---------------------------- *)
IsOpen(tbs, t) == t \in DOMAIN tbs /\ tbs[t].open

\* chrome.tabs.remove / the tab going away: its document and the worker
\* requests waiting in it are gone.
RemoveTab(tbs, t) ==
    IF IsOpen(tbs, t)
    THEN [tbs EXCEPT ![t] = [@ EXCEPT !.open = FALSE, !.doc = NoUrl,
                                      !.nav = NoUrl, !.runs = <<>>]]
    ELSE tbs

\* chrome.tabs.update(tabId, {url}): starts a navigation; the old document
\* stays until the new one has loaded.  On a removed tab the call fails and
\* the runner passes no callback that would notice.
NavigateTab(tbs, t, u) ==
    IF IsOpen(tbs, t) THEN [tbs EXCEPT ![t].nav = u] ELSE tbs

ClearTimer(tms, id) == {tm \in tms : tm.id # id}

NewTimerId(tms) ==
    CHOOSE n \in 1..(Cardinality(tms) + 1) : \A tm \in tms : tm.id # n

NoSrc == [job |-> 0, url |-> NoUrl, cause |-> "none"]

Event(type, done, total, success, url, note, src) ==
    [type |-> type, done |-> done, total |-> total, successCount |-> success,
     url |-> url, note |-> note, src |-> src]

Emit(s, e) == [s EXCEPT !.events = Append(@, e)]

(* ------------------------- the runner's functions ---------------------- *)
cleanup(s) ==
    IF s.job.id = 0 THEN s
    ELSE [s EXCEPT
            !.tabs = IF ~s.job.debugKeepTab /\ s.job.tabId # 0
                     THEN RemoveTab(@, s.job.tabId) ELSE @,
            !.updListener = FALSE,
            !.handlers = IF s.job.onWorkerMsg # 0
                         THEN @ \ {s.job.onWorkerMsg} ELSE @,
            !.timers = IF s.job.videoTimer # 0
                       THEN ClearTimer(@, s.job.videoTimer) ELSE @,
            !.job = NoJob]

\* `src` is not part of the message: it records which job's callback (tab
\* creation, injection, timer, worker reply) caused the event, and for
\* which target.
sendProgress(s, note, src) ==
    Emit(s, Event("playlist-apply-progress", s.job.done, s.job.total, 0,
                  s.job.currentUrl, note, src))

\* next() without its `if (!job) return`
next_NoJobCheck(s) ==
    LET s1 == IF s.job.videoTimer # 0
              THEN [s EXCEPT !.timers = ClearTimer(@, s.job.videoTimer),
                             !.job.videoTimer = 0]
              ELSE s
    IN  IF s1.job.queue = <<>>
        THEN [Emit(s1, Event("playlist-apply-complete", 0, s1.job.total,
                             s1.job.done, NoUrl, "All videos processed.",
                             NoSrc))
              EXCEPT !.job = NoJob, !.updListener = FALSE]
        ELSE [s1 EXCEPT !.job.currentUrl = Head(s1.job.queue),
                        !.job.queue = Tail(@)]

next(s) ==
    IF s.job.id = 0 THEN s
    ELSE LET s1 == IF s.job.videoTimer # 0
                   THEN [s EXCEPT !.timers = ClearTimer(@, s.job.videoTimer),
                                  !.job.videoTimer = 0]
                   ELSE s
         IN  IF s1.job.queue = <<>>
             THEN cleanup(Emit(s1, Event("playlist-apply-complete", 0,
                                         s1.job.total, s1.job.done, NoUrl,
                                         "All videos processed.", NoSrc)))
             ELSE LET u == Head(s1.job.queue)
                  IN  [s1 EXCEPT !.job.currentUrl = u,
                                 !.job.queue = Tail(@),
                                 !.tabs = NavigateTab(@, s1.job.tabId, u)]

\* job.done += 1; sendProgress(note); next();
Settle(s, note, src) ==
    next(sendProgress([s EXCEPT !.job.done = @ + 1], note, src))

\* the closure stored in job.onWorkerMsg, for a videoWorkerResult message
onWorkerMsg(s, senderTab, ok, src) ==
    IF s.job.id = 0 THEN s
    ELSE IF senderTab # s.job.tabId THEN s
    ELSE LET s1 == IF s.job.videoTimer # 0
                   THEN [s EXCEPT !.timers = ClearTimer(@, s.job.videoTimer),
                                  !.job.videoTimer = 0]
                   ELSE s
             note == IF ok THEN (IF s.job.clearAll THEN "Cleared" ELSE "Updated")
                     ELSE "Skipped"
         IN  Settle(s1, note, src)

RECURSIVE Dispatch(_, _, _, _, _)
\* runtime.onMessage calls every registered listener, oldest first
Dispatch(s, hs, senderTab, ok, src) ==
    IF hs = {} THEN s
    ELSE LET h == CHOOSE x \in hs : \A y \in hs : x <= y
         IN  Dispatch(onWorkerMsg(s, senderTab, ok, src), hs \ {h},
                      senderTab, ok, src)

(* ------------------------------- actions ------------------------------- *)
\* no account tab is open, Streamer Mode was never applied
StreamerIdle ==
    [closed |-> FALSE, eligible |-> FALSE, masked |-> FALSE, last |-> "none",
     debounce |-> "none", want |-> TRUE, loads |-> 0, toggles |-> 0]

\* nothing harvested yet: no offscreen document, both harvests idle
Harvests == {"videos", "playlists"}

ProcIdle ==
    [pc |-> "idle", has |-> FALSE, awaiting |-> 0, page |-> 1,
     got |-> "none", runs |-> 0]

ScrapeIdle ==
    [tab |-> "none", pending |-> FALSE, injected |-> FALSE,
     resolver |-> FALSE, sent |-> FALSE]

HarvestIdle ==
    [api |-> TRUE, doc |-> "none", docBy |-> 0, promise |-> 0, made |-> 0,
     settled |-> {}, creations |-> {}, closers |-> {}, finished |-> 0,
     reqs |-> <<>>, listeners |-> {},
     proc |-> [h \in Harvests |-> ProcIdle],
     scraping |-> [h \in Harvests |-> FALSE],
     scrape |-> ScrapeIdle, userPlaylists |-> 0]

\* no debounce timer pending, nothing called
DebounceIdle ==
    [map |-> {}, timers |-> {}, log |-> <<>>, ran |-> <<>>]

NoCall == [fn |-> "none", arg |-> <<>>, res |-> <<>>, returned |-> FALSE]

JobInit ==
    /\ job = NoJob
    /\ tabs = <<>>
    /\ updListener = FALSE
    /\ handlers = {}
    /\ timers = {}
    /\ events = <<>>
    /\ injecting = <<>>
    /\ creating = <<>>
    /\ starts = 0
    /\ reloads = 0
    /\ closes = 0

Init ==
    /\ JobInit
    /\ harvest = HarvestIdle
    /\ debounce = DebounceIdle
    /\ streamer = StreamerIdle
    /\ call = NoCall

\* the validation with the Clear exemption forgotten
StartRejected_NoClearExemption(p, unique) ==
    \/ unique = <<>>
    \/ (p.playlistIds = <<>> /\ p.playlistNames = <<>>)

\* a validation that would look the names up (in a directory never harvested)
StartRejected_ResolvesNames(p, unique) ==
    \/ unique = <<>>
    \/ (/\ ~p.clearAll
        /\ p.playlistIds = <<>>
        /\ resolveIdsFromNames(p.playlistNames, <<>>) = <<>>)

StartRejected(p, unique) ==
    \/ unique = <<>>
    \/ (~p.clearAll /\ p.playlistIds = <<>> /\ p.playlistNames = <<>>)

\* start(payload): onMessage 'applyPlaylistsToVideos' / 'clearPlaylistsFromVideos'
start(p) ==
    /\ starts < MaxStarts
    /\ starts' = starts + 1
    /\ LET s0     == cleanup(Cur)
           unique == Normalize(p.videoUrls)
       IN  IF StartRejected(p, unique)
           THEN /\ Commit([s0 EXCEPT !.events =
                       <<Event("playlist-apply-error", 0, 0, 0, NoUrl,
                               "Missing videos or playlists.", NoSrc)>>])
                /\ creating' = creating
           ELSE /\ Commit([s0 EXCEPT
                       !.job = [id |-> starts + 1,
                                playlistIds |-> p.playlistIds,
                                playlistNames |-> p.playlistNames,
                                clearAll |-> p.clearAll,
                                queue |-> unique,
                                total |-> Len(unique),
                                done |-> 0,
                                currentUrl |-> NoUrl,
                                tabId |-> 0,
                                debugKeepTab |-> p.debugKeepTab,
                                videoTimer |-> 0,
                                onWorkerMsg |-> 0],
                       !.events =
                       <<Event("playlist-apply-started", 0, Len(unique), 0,
                               NoUrl, IF p.clearAll THEN "clear" ELSE "set",
                               NoSrc)>>])
                /\ creating' = Append(creating,
                                      [owner |-> starts + 1, url |-> unique[1]])
    /\ UNCHANGED <<injecting, reloads, closes>>
    /\ UNCHANGED <<streamer, call, harvest, debounce>>

Start == \E p \in Payloads : start(p)

\* callback of chrome.tabs.create, the host refused to create the tab
TabCreateFailed ==
    /\ creating # <<>>
    /\ creating' = Tail(creating)
    /\ IF HasJob
       THEN Commit(cleanup(Emit(Cur,
                Event("playlist-apply-complete", 0, job.total, 0, NoUrl,
                      "Failed to create hidden tab.",
                      [job |-> Head(creating).owner, url |-> NoUrl,
                       cause |-> "create"]))))
       ELSE Commit(Cur)   \* TypeError reading job.total
    /\ UNCHANGED <<injecting, starts, reloads, closes>>
    /\ UNCHANGED <<streamer, call, harvest, debounce>>

\* callback of chrome.tabs.create with the new tab
TabCreated ==
    /\ creating # <<>>
    /\ creating' = Tail(creating)
    /\ LET c    == Head(creating)
           t    == Len(tabs) + 1
           tbs  == Append(tabs, [open |-> TRUE, owner |-> c.owner,
                                 doc |-> NoUrl, nav |-> c.url, runs |-> <<>>])
           s0   == [Cur EXCEPT !.tabs = tbs]
       IN  IF HasJob
           THEN Commit([s0 EXCEPT
                    !.job.tabId = t,
                    !.updListener = TRUE,
                    !.job.onWorkerMsg = t,
                    !.handlers = @ \cup {t},
                    \* queue.shift(): undefined on an empty queue
                    !.job.currentUrl = IF job.queue = <<>> THEN NoUrl
                                       ELSE Head(job.queue),
                    !.job.queue = IF job.queue = <<>> THEN <<>>
                                  ELSE Tail(job.queue)])
           ELSE Commit(s0)   \* TypeError writing job.tabId; the tab stays
    /\ UNCHANGED <<injecting, starts, reloads, closes>>
    /\ UNCHANGED <<streamer, call, harvest, debounce>>

\* a hidden tab finishes loading; tabs.onUpdated fires with status 'complete'
TabComplete(t) ==
    /\ IsOpen(tabs, t)
    /\ tabs[t].nav # NoUrl
    /\ tabs' = [tabs EXCEPT ![t] = [@ EXCEPT !.doc = tabs[t].nav,
                                            !.nav = NoUrl, !.runs = <<>>]]
    /\ injecting' = IF updListener /\ HasJob /\ t = job.tabId
                    THEN Append(injecting, t)     \* onUpdated: executeScript
                    ELSE injecting
    /\ UNCHANGED <<job, updListener, handlers, timers, events, creating,
                   starts, reloads, closes>>
    /\ UNCHANGED <<streamer, call, harvest, debounce>>

\* the page in a hidden tab redirects or reloads after it had loaded
TabReload(t) ==
    /\ reloads < MaxReloads
    /\ IsOpen(tabs, t)
    /\ tabs[t].nav = NoUrl
    /\ tabs' = [tabs EXCEPT ![t].nav = tabs[t].doc]
    /\ reloads' = reloads + 1
    /\ UNCHANGED <<job, updListener, handlers, timers, events, injecting,
                   creating, starts, closes>>
    /\ UNCHANGED <<streamer, call, harvest, debounce>>

\* callback of executeScript with chrome.runtime.lastError set
InjectFailed ==
    /\ injecting # <<>>
    /\ injecting' = Tail(injecting)
    /\ IF HasJob
       THEN Commit(Settle(Cur, "Inject failed; skipping.",
                          [job |-> job.id, url |-> job.currentUrl,
                           cause |-> "inject"]))
       ELSE Commit(Cur)   \* TypeError reading job.done
    /\ UNCHANGED <<creating, starts, reloads, closes>>
    /\ UNCHANGED <<streamer, call, harvest, debounce>>

\* callback of executeScript, the worker script is in the page
InjectDone ==
    /\ injecting # <<>>
    /\ IsOpen(tabs, Head(injecting))
    /\ injecting' = Tail(injecting)
    /\ LET t  == Head(injecting)
           id == NewTimerId(timers)
       IN  IF HasJob
           THEN Commit([Cur EXCEPT
                    !.timers = @ \cup {[id |-> id, job |-> job.id,
                                        url |-> job.currentUrl]},
                    !.job.videoTimer = id,
                    \* tabs.sendMessage(tabId, videoWorkerRun)
                    !.tabs[t].runs = Append(@, job.id)])
           ELSE Commit(Cur)   \* TypeError reading job.perVideoTimeoutMs
    /\ UNCHANGED <<creating, starts, reloads, closes>>
    /\ UNCHANGED <<streamer, call, harvest, debounce>>

\* the per-video timer set in onUpdated fires
TimerFire(tm) ==
    /\ tm \in timers
    /\ LET s0 == [Cur EXCEPT !.timers = @ \ {tm}]
       IN  IF HasJob
           THEN Commit(Settle(s0, "Timeout; skipping.",
                              [job |-> tm.job, url |-> tm.url,
                               cause |-> "timeout"]))
           ELSE Commit(s0)   \* TypeError reading job.done
    /\ UNCHANGED <<injecting, creating, starts, reloads, closes>>
    /\ UNCHANGED <<streamer, call, harvest, debounce>>

\* the worker in tab t answers a videoWorkerRun with videoWorkerResult{ok}
WorkerResult(t, ok) ==
    /\ IsOpen(tabs, t)
    /\ tabs[t].runs # <<>>
    /\ LET s0 == [Cur EXCEPT !.tabs[t].runs = Tail(@)]
       IN  Commit(Dispatch(s0, handlers, t, ok,
                           [job |-> Head(tabs[t].runs), url |-> tabs[t].doc,
                            cause |-> "result"]))
    /\ UNCHANGED <<injecting, creating, starts, reloads, closes>>
    /\ UNCHANGED <<streamer, call, harvest, debounce>>

\* a hidden tab is closed from outside; the tabs.onRemoved listener runs
\* and does not look at the runner's job
TabRemoved(t) ==
    /\ closes < MaxCloses
    /\ IsOpen(tabs, t)
    /\ tabs' = RemoveTab(tabs, t)
    /\ closes' = closes + 1
    /\ UNCHANGED <<job, updListener, handlers, timers, events, injecting,
                   creating, starts, reloads>>
    /\ UNCHANGED <<streamer, call, harvest, debounce>>

Next ==
    \/ Start
    \/ TabCreateFailed
    \/ TabCreated
    \/ \E t \in DOMAIN tabs : TabComplete(t)
    \/ \E t \in DOMAIN tabs : TabReload(t)
    \/ InjectFailed
    \/ InjectDone
    \/ \E tm \in timers : TimerFire(tm)
    \/ \E t \in DOMAIN tabs : \E ok \in BOOLEAN : WorkerResult(t, ok)
    \/ \E t \in DOMAIN tabs : TabRemoved(t)

Spec == Init /\ [][Next]_vars

(* --------------------- the worker never answers ------------------------ *)
\* The same runner when no videoWorkerResult is ever sent, with the
\* callbacks, load events and timers the browser has queued eventually run.
NextNoReply ==
    \/ Start
    \/ TabCreateFailed
    \/ TabCreated
    \/ \E t \in DOMAIN tabs : TabComplete(t)
    \/ \E t \in DOMAIN tabs : TabReload(t)
    \/ InjectFailed
    \/ InjectDone
    \/ \E tm \in timers : TimerFire(tm)
    \/ \E t \in DOMAIN tabs : TabRemoved(t)

NoReplyFairSpec ==
    /\ Init
    /\ [][NextNoReply]_vars
    /\ WF_vars(TabCreateFailed \/ TabCreated)
    /\ WF_vars(\E t \in DOMAIN tabs : TabComplete(t))
    /\ WF_vars(InjectFailed \/ InjectDone)
    /\ WF_vars(\E tm \in timers : TimerFire(tm))

(* ----------------------- the helpers, one call each -------------------- *)
MaxVid     == 2   \* different video pages in one list
MaxListLen == 3   \* submitted video URLs in one list

\* with a query, a fragment, a trailing slash, or a query after a slash
Decorations ==
    {<<FALSE, FALSE, 0>>, <<TRUE, FALSE, 0>>, <<FALSE, TRUE, 0>>,
     <<FALSE, FALSE, 1>>, <<TRUE, FALSE, 1>>}

RawUrls ==
    {Url(k, v, d[1], d[2], d[3]) :
        k \in {"abs", "rel", "bad"}, v \in 1..MaxVid, d \in Decorations}

CallOf(f, a) == [fn |-> f, arg |-> a, res |-> <<>>, returned |-> FALSE]

\* const abs = videoUrls.map(toAbs).map(stripParams); unique = ...
NormalizeInit ==
    /\ JobInit
    /\ harvest = HarvestIdle
    /\ debounce = DebounceIdle
    /\ streamer = StreamerIdle
    /\ call \in {CallOf("Normalize", l) : l \in SeqsUpTo(RawUrls, MaxListLen)}

NormalizeCall ==
    /\ call.fn = "Normalize"
    /\ ~call.returned
    /\ call' = [call EXCEPT !.res = Normalize(call.arg), !.returned = TRUE]
    /\ UNCHANGED <<jobVars, streamer, harvest, debounce>>

NormalizeSpec == NormalizeInit /\ [][NormalizeCall]_vars

\* ids = await resolveIdsFromNames(namesRaw)
ResolveInit ==
    /\ JobInit
    /\ harvest = HarvestIdle
    /\ debounce = DebounceIdle
    /\ streamer = StreamerIdle
    /\ call \in {CallOf("resolveIdsFromNames", [nameList |-> n, userPlaylists |-> d]) :
                    n \in SeqsUpTo(Names, MaxNames), d \in Directories}

ResolveCall ==
    /\ call.fn = "resolveIdsFromNames"
    /\ ~call.returned
    /\ call' = [call EXCEPT
                  !.res = resolveIdsFromNames(call.arg.nameList,
                                              call.arg.userPlaylists),
                  !.returned = TRUE]
    /\ UNCHANGED <<jobVars, streamer, harvest, debounce>>

ResolveSpec == ResolveInit /\ [][ResolveCall]_vars

(* ------------------- Streamer Mode on one browser tab ------------------ *)
MaxLoads   == 3   \* page loads in the tab
MaxToggles == 1   \* changes of enable-streamer-mode

\* streamer.closed    the tab was removed
\* streamer.eligible  isStreamerPage(url) of the document now in the tab
\* streamer.masked    streamer-mode.js is active in that document
\* streamer.last      __RLO_LAST_APPLIED.streamer.get(tabId)
\* streamer.debounce  the pending __RLO_DEBOUNCE timer of the tab, with the
\*                    wantEnabled its closure captured
\* streamer.want      functionStates['enable-streamer-mode']
OnOff(b) == IF b THEN "on" ELSE "off"

\* ensureStreamerForTab(tab): a page that is not eligible returns at once;
\* otherwise the closure replaces the pending one of the tab
ensureStreamerForTab(st) ==
    IF st.closed \/ ~st.eligible THEN st
    ELSE [st EXCEPT !.debounce = OnOff(st.want)]

\* injectStreamerContent(tabId); nothing is recorded when executeScript
\* rejects (the tab is gone)
injectStreamerContent(st) ==
    IF st.closed THEN st
    ELSE [st EXCEPT !.masked = TRUE, !.last = "on"]

disableStreamerOnPage(st) ==
    IF st.closed THEN st
    ELSE [st EXCEPT !.masked = FALSE, !.last = "off"]

StreamerInit ==
    /\ JobInit
    /\ harvest = HarvestIdle
    /\ debounce = DebounceIdle
    /\ call = NoCall
    /\ streamer \in {[StreamerIdle EXCEPT !.want = w] : w \in BOOLEAN}

\* a document finished loading in the tab: webNavigation.onCompleted and
\* tabs.onUpdated(status complete) both call ensureStreamerForTab
PageLoaded(e) ==
    /\ ~streamer.closed
    /\ streamer.loads < MaxLoads
    /\ streamer' = ensureStreamerForTab(
                       [streamer EXCEPT !.eligible = e, !.masked = FALSE,
                                        !.loads = @ + 1])
    /\ UNCHANGED <<jobVars, call, harvest, debounce>>

\* chrome.storage.onChanged for functionStates
ToggleStreamer ==
    /\ streamer.toggles < MaxToggles
    /\ streamer' = ensureStreamerForTab(
                       [streamer EXCEPT !.want = ~@, !.toggles = @ + 1])
    /\ UNCHANGED <<jobVars, call, harvest, debounce>>

\* the debounce timer of the tab fires and runs the closure
DebounceFire ==
    /\ streamer.debounce # "none"
    /\ LET st == [streamer EXCEPT !.debounce = "none"]
       IN  streamer' =
               IF st.last = streamer.debounce THEN st
               ELSE IF streamer.debounce = "on"
                    THEN injectStreamerContent(st)
                    ELSE disableStreamerOnPage(st)
    /\ UNCHANGED <<jobVars, call, harvest, debounce>>

\* chrome.tabs.onRemoved
StreamerTabRemoved ==
    /\ ~streamer.closed
    /\ streamer.loads > 0
    /\ streamer' = [streamer EXCEPT !.closed = TRUE, !.eligible = FALSE,
                                    !.masked = FALSE, !.last = "none"]
    /\ UNCHANGED <<jobVars, call, harvest, debounce>>

StreamerNext ==
    \/ \E e \in BOOLEAN : PageLoaded(e)
    \/ ToggleStreamer
    \/ DebounceFire
    \/ StreamerTabRemoved

StreamerSpec ==
    StreamerInit /\ [][StreamerNext]_vars /\ WF_vars(DebounceFire)

(* ------------- offscreen document, video and playlist harvest ---------- *)
MaxRuns  == 1   \* runs of each harvest
MaxPages == 2   \* pages of the video listing (HARVEST_MAX_PAGES in the code)

\* harvest.api        chrome.runtime.getOffscreenDocuments exists
\* harvest.doc        the offscreen document: "none", "loading" (created,
\*                    offscreen.js has not run yet) or "ready"
\* harvest.docBy      the creation that made the document
\* harvest.promise    creatingOffscreenPromise (0: null)
\* harvest.settled    creation promises already resolved
\* harvest.creations  the async blocks started by setupOffscreenDocument
\* harvest.closers    closeOffscreenDocument calls that have not returned
\* harvest.finished   harvest runs that reached their finally block
\* harvest.reqs       parse-html messages the document has not answered
\* harvest.listeners  harvests with a parse-result listener registered
\* harvest.proc[h]    where harvest h is in its function
\* harvest.scraping   isScraping / isPlaylistScraping
\* harvest.scrape     scrapePlaylistsViaTab: its tab and its two tables
\* harvest.userPlaylists  number of writes of the storage key

\* hasOffscreenDocument(): what the browser may answer.  Whether a document
\* that is still loading is listed is up to the browser.
hasOffscreenDocument(hv) ==
    IF ~hv.api \/ hv.doc = "none" THEN {FALSE}
    ELSE IF hv.doc = "ready" THEN {TRUE}
    ELSE BOOLEAN

Pc(h) == harvest.proc[h].pc

SetProc(hv, h, f, v) == [hv EXCEPT !.proc[h][f] = v]

\* resolve() of a creation promise, with creatingOffscreenPromise = null
SettleCreation(hv, c) ==
    [hv EXCEPT !.creations = @ \ {c},
               !.promise = 0,
               !.settled = @ \cup {c.id}]

\* setupOffscreenDocument after `await hasOffscreenDocument()`
SetupAfterHas(hv, h) ==
    IF hv.proc[h].has THEN SetProc(hv, h, "pc", "fetch")
    ELSE IF hv.promise # 0
    THEN [hv EXCEPT !.proc[h].awaiting = hv.promise,
                    !.proc[h].pc = "wait"]
    ELSE LET id == hv.made + 1
         IN  [hv EXCEPT !.promise = id,
                        !.made = id,
                        !.creations = @ \cup {[id |-> id, pc |-> "ask",
                                               has |-> FALSE]},
                        !.proc[h].awaiting = id,
                        !.proc[h].pc = "wait"]

\* the test of closeOffscreenDocument with the two flags left out
CloseAllowed_IgnoresFlags(hv, c) ==
    c.has

\* closeOffscreenDocument: hasOffscreenDocument() && !isScraping &&
\* !isPlaylistScraping
CloseAllowed(hv, c) ==
    /\ c.has
    /\ \A g \in Harvests : ~hv.scraping[g]

\* where a harvest goes on when its parse request resolved
AfterParse(hv, h, empty) ==
    IF h = "videos"
    THEN IF empty \/ hv.proc[h].page = MaxPages
         THEN SetProc(hv, h, "pc", "finish")
         ELSE [hv EXCEPT !.proc[h].page = @ + 1, !.proc[h].pc = "fetch"]
    ELSE SetProc(hv, h, "pc", IF empty THEN "fallback" ELSE "write")

RECURSIVE ResolveListeners(_, _, _, _)
ResolveListeners(hv, ls, req, empty) ==
    IF ls = {} THEN hv
    ELSE LET l == CHOOSE x \in ls : TRUE
         IN  ResolveListeners(
                 AfterParse(SetProc(hv, l, "got", req.h), l, empty),
                 ls \ {l}, req, empty)

HarvestInit ==
    /\ JobInit
    /\ streamer = StreamerIdle
    /\ call = NoCall
    /\ debounce = DebounceIdle
    /\ harvest \in {[HarvestIdle EXCEPT !.api = a] : a \in BOOLEAN}

HarvestRest == <<jobVars, streamer, call, debounce>>

\* onMessage 'harvestVideos' / 'fetchPlaylists': runVideoHarvest(),
\* runPlaylistHarvest() up to their setupOffscreenDocument call
HarvestStart(h) ==
    /\ Pc(h) = "idle"
    /\ ~harvest.scraping[h]
    /\ harvest.proc[h].runs < MaxRuns
    /\ harvest' = [harvest EXCEPT !.scraping[h] = TRUE,
                                  !.proc[h].pc = "setup",
                                  !.proc[h].page = 1,
                                  !.proc[h].got = "none"]
    /\ UNCHANGED HarvestRest

\* setupOffscreenDocument: the browser answers hasOffscreenDocument()
SetupAsk(h) ==
    /\ Pc(h) = "setup"
    /\ \E r \in hasOffscreenDocument(harvest) :
          harvest' = [harvest EXCEPT !.proc[h].has = r,
                                     !.proc[h].pc = "setup_resume"]
    /\ UNCHANGED HarvestRest

SetupResume(h) ==
    /\ Pc(h) = "setup_resume"
    /\ harvest' = SetupAfterHas(harvest, h)
    /\ UNCHANGED HarvestRest

\* the async block of the creation promise asks hasOffscreenDocument()
CreationAsk(c) ==
    /\ c \in harvest.creations
    /\ c.pc = "ask"
    /\ \E r \in hasOffscreenDocument(harvest) :
          harvest' = [harvest EXCEPT
                        !.creations = (@ \ {c}) \cup
                                      {[c EXCEPT !.pc = "resume",
                                                 !.has = r]}]
    /\ UNCHANGED HarvestRest

\* ... and resolves, or calls chrome.offscreen.createDocument
CreationResume(c) ==
    /\ c \in harvest.creations
    /\ c.pc = "resume"
    /\ harvest' =
          IF c.has THEN SettleCreation(harvest, c)
          ELSE [harvest EXCEPT
                  !.creations = (@ \ {c}) \cup {[c EXCEPT !.pc = "creating"]},
                  !.doc = IF harvest.doc = "none" THEN "loading" ELSE @,
                  !.docBy = IF harvest.doc = "none" THEN c.id ELSE @]
    /\ UNCHANGED HarvestRest

\* offscreen.js runs in the new document and sends offscreen-ready: every
\* listener of a pending creation resolves its promise
DocLoaded(c) ==
    /\ c \in harvest.creations
    /\ c.pc = "creating"
    /\ harvest.doc = "loading"
    /\ harvest.docBy = c.id
    /\ harvest' = [harvest EXCEPT
                     !.doc = "ready",
                     !.creations = @ \ {c},
                     !.promise = 0,
                     !.settled = @ \cup {x.id : x \in harvest.creations}]
    /\ UNCHANGED HarvestRest

\* createDocument rejects (a document exists already, or the browser
\* refuses): the catch branch resolves the promise
CreateFails(c) ==
    /\ c \in harvest.creations
    /\ c.pc = "creating"
    /\ LET mine == harvest.doc = "loading" /\ harvest.docBy = c.id
       IN  harvest' = [SettleCreation(harvest, c) EXCEPT
                         !.doc = IF mine THEN "none" ELSE @,
                         !.docBy = IF mine THEN 0 ELSE @]
    /\ UNCHANGED HarvestRest

\* `await creatingOffscreenPromise` returns
SetupDone(h) ==
    /\ Pc(h) = "wait"
    /\ harvest.proc[h].awaiting \in harvest.settled
    /\ harvest' = SetProc(harvest, h, "pc", "fetch")
    /\ UNCHANGED HarvestRest

\* fetchVideoPage / fetchPlaylistPage: the page was fetched,
\* parseHtmlWithOffscreen registers its listener and sends parse-html; the
\* message is lost when no document is listening
ParseSend(h) ==
    /\ Pc(h) = "fetch"
    /\ harvest' = [harvest EXCEPT
                     !.listeners = @ \cup {h},
                     !.reqs = IF harvest.doc = "ready"
                              THEN Append(@, [h |-> h,
                                              page |-> harvest.proc[h].page])
                              ELSE @,
                     !.proc[h].pc = "parsing"]
    /\ UNCHANGED HarvestRest

\* fetchPage returned null: the page counts as empty, nothing is parsed
FetchFailed(h) ==
    /\ Pc(h) = "fetch"
    /\ harvest' = AfterParse(harvest, h, TRUE)
    /\ UNCHANGED HarvestRest

\* offscreen.js answers the oldest parse-html with parse-result; the
\* message reaches every listener registered in the service worker
DocAnswers(empty) ==
    /\ harvest.reqs # <<>>
    /\ harvest.doc = "ready"
    /\ harvest' = ResolveListeners(
                      [harvest EXCEPT !.reqs = Tail(@), !.listeners = {}],
                      harvest.listeners, Head(harvest.reqs), empty)
    /\ UNCHANGED HarvestRest

\* scrapePlaylistsViaTab: chrome.tabs.create is called
ScrapeOpen ==
    /\ Pc("playlists") = "fallback"
    /\ harvest' = [harvest EXCEPT !.scrape = [ScrapeIdle EXCEPT
                                                !.tab = "creating"],
                                  !.proc["playlists"].pc = "scraping"]
    /\ UNCHANGED HarvestRest

\* callback of chrome.tabs.create
ScrapeTabCreated ==
    /\ harvest.scrape.tab = "creating"
    /\ harvest' = [harvest EXCEPT !.scrape.tab = "loading",
                                  !.scrape.pending = TRUE,
                                  !.scrape.resolver = TRUE]
    /\ UNCHANGED HarvestRest

\* tabs.onUpdated 'complete' for the scrape tab: the scraper is injected
\* once and sends playlistsFromScrape
ScrapeTabComplete ==
    /\ harvest.scrape.tab = "loading"
    /\ LET inject == harvest.scrape.pending /\ ~harvest.scrape.injected
       IN  harvest' = [harvest EXCEPT
                         !.scrape.tab = "complete",
                         !.scrape.injected = @ \/ inject,
                         !.scrape.sent = @ \/ inject]
    /\ UNCHANGED HarvestRest

\* playlistsFromScrape arrives in the service worker, where no listener
\* handles that message type
ScrapeMessage ==
    /\ harvest.scrape.sent
    /\ harvest' = [harvest EXCEPT !.scrape.sent = FALSE]
    /\ UNCHANGED HarvestRest

\* the user closes the scrape tab: tabs.onRemoved calls the resolver with []
ScrapeTabRemoved ==
    /\ harvest.scrape.tab \in {"loading", "complete"}
    /\ harvest' =
          IF harvest.scrape.resolver
          THEN [harvest EXCEPT !.scrape.tab = "closed",
                               !.scrape.pending = FALSE,
                               !.scrape.resolver = FALSE,
                               !.scrape.sent = FALSE,
                               !.proc["playlists"].pc = "write"]
          ELSE [harvest EXCEPT !.scrape.tab = "closed",
                               !.scrape.sent = FALSE]
    /\ UNCHANGED HarvestRest

\* chrome.storage.local.set({userPlaylists: list, ...})
WriteDirectory ==
    /\ Pc("playlists") = "write"
    /\ harvest' = [harvest EXCEPT !.userPlaylists = @ + 1,
                                  !.proc["playlists"].pc = "finish"]
    /\ UNCHANGED HarvestRest

\* finally: the flag is reset and closeOffscreenDocument is called; the
\* harvest can be started again while that call is still waiting
HarvestFinish(h) ==
    /\ Pc(h) = "finish"
    /\ harvest' = [harvest EXCEPT
                     !.scraping[h] = FALSE,
                     !.proc[h] = [ProcIdle EXCEPT
                                    !.got = harvest.proc[h].got,
                                    !.runs = harvest.proc[h].runs + 1],
                     !.finished = @ + 1,
                     !.closers = @ \cup {[id |-> harvest.finished + 1,
                                          pc |-> "ask", has |-> FALSE]}]
    /\ UNCHANGED HarvestRest

\* closeOffscreenDocument: the browser answers hasOffscreenDocument()
CloseAsk(c) ==
    /\ c \in harvest.closers
    /\ c.pc = "ask"
    /\ \E r \in hasOffscreenDocument(harvest) :
          harvest' = [harvest EXCEPT
                        !.closers = (@ \ {c}) \cup
                                    {[c EXCEPT !.pc = "resume", !.has = r]}]
    /\ UNCHANGED HarvestRest

\* ... and the document is closed if no harvest is flagged
CloseResume(c) ==
    /\ c \in harvest.closers
    /\ c.pc = "resume"
    /\ LET hv == [harvest EXCEPT !.closers = @ \ {c}]
       IN  harvest' = IF CloseAllowed(harvest, c)
                      THEN [hv EXCEPT !.doc = "none", !.docBy = 0,
                                      !.reqs = <<>>]
                      ELSE hv
    /\ UNCHANGED HarvestRest

HarvestSteps(h) ==
    \/ HarvestStart(h)
    \/ SetupAsk(h)
    \/ SetupResume(h)
    \/ SetupDone(h)
    \/ ParseSend(h)
    \/ FetchFailed(h)
    \/ HarvestFinish(h)

OffscreenSteps ==
    \/ \E c \in harvest.closers : CloseAsk(c)
    \/ \E c \in harvest.closers : CloseResume(c)
    \/ \E c \in harvest.creations : CreationAsk(c)
    \/ \E c \in harvest.creations : CreationResume(c)
    \/ \E c \in harvest.creations : DocLoaded(c)
    \/ \E c \in harvest.creations : CreateFails(c)
    \/ \E e \in BOOLEAN : DocAnswers(e)

ScrapeSteps ==
    \/ ScrapeOpen
    \/ ScrapeTabCreated
    \/ ScrapeTabComplete
    \/ ScrapeMessage
    \/ WriteDirectory

HarvestNext ==
    \/ \E h \in Harvests : HarvestSteps(h)
    \/ OffscreenSteps
    \/ ScrapeSteps
    \/ ScrapeTabRemoved

HarvestSpec == HarvestInit /\ [][HarvestNext]_vars

\* the harvests and the browser keep running; only the user's closing of
\* the scrape tab, new harvests and failures are not bound to happen
HarvestProgress(h) ==
    \/ SetupAsk(h)
    \/ SetupResume(h)
    \/ SetupDone(h)
    \/ ParseSend(h)
    \/ HarvestFinish(h)

OffscreenProgress ==
    \/ \E c \in harvest.closers : CloseAsk(c)
    \/ \E c \in harvest.closers : CloseResume(c)
    \/ \E c \in harvest.creations : CreationAsk(c)
    \/ \E c \in harvest.creations : CreationResume(c)
    \/ \E c \in harvest.creations : DocLoaded(c)
    \/ \E e \in BOOLEAN : DocAnswers(e)

HarvestFairSpec ==
    /\ HarvestSpec
    /\ \A h \in Harvests : WF_vars(HarvestProgress(h))
    /\ WF_vars(OffscreenProgress)
    /\ WF_vars(ScrapeSteps)

(* ------------- a playlist harvest while the runner has a job ----------- *)
\* The options page can send 'fetchPlaylists' at any time, also while a
\* job runs: the runner without failures, next to one playlist harvest.
DirectoryNext ==
    \/ Start
    \/ TabCreated
    \/ \E t \in DOMAIN tabs : TabComplete(t)
    \/ InjectDone
    \/ \E t \in DOMAIN tabs : \E ok \in BOOLEAN : WorkerResult(t, ok)
    \/ HarvestSteps("playlists")
    \/ OffscreenSteps
    \/ ScrapeSteps
    \/ ScrapeTabRemoved

DirectorySpec == Init /\ [][DirectoryNext]_vars

(* --------------------------- __rloDebouncePerTab ----------------------- *)
MaxKeys  == 2   \* debounce keys
MaxCalls == 3   \* calls of __rloDebouncePerTab

\* debounce.map     __RLO_DEBOUNCE: pairs of key and timer id
\* debounce.timers  pending setTimeout timers, each with the fn it runs
\* debounce.log     the key of every call so far; call n passes fn n
\* debounce.ran     the fns that ran, with the number of calls made by then

\* the call without `if (t) clearTimeout(t)`
rloDebouncePerTab_NoClear(d, key) ==
    LET id == Len(d.log) + 1
    IN  [d EXCEPT !.timers = @ \cup {[id |-> id, key |-> key, fn |-> id]},
                  !.map = {e \in @ : e.key # key} \cup
                          {[key |-> key, id |-> id]},
                  !.log = Append(@, key)]

\* __rloDebouncePerTab(key, fn, ms)
rloDebouncePerTab(d, key) ==
    LET t  == {e.id : e \in {e \in d.map : e.key = key}}
        id == Len(d.log) + 1
    IN  [d EXCEPT !.timers = {tm \in @ : tm.id \notin t} \cup
                             {[id |-> id, key |-> key, fn |-> id]},
                  !.map = {e \in @ : e.key # key} \cup
                          {[key |-> key, id |-> id]},
                  !.log = Append(@, key)]

DebounceRest == <<jobVars, streamer, call, harvest>>

DebounceInit ==
    /\ JobInit
    /\ streamer = StreamerIdle
    /\ call = NoCall
    /\ harvest = HarvestIdle
    /\ debounce = DebounceIdle

DebounceCall(key) ==
    /\ Len(debounce.log) < MaxCalls
    /\ debounce' = rloDebouncePerTab(debounce, key)
    /\ UNCHANGED DebounceRest

\* the timer callback: __RLO_DEBOUNCE.delete(key); fn()
DebounceTimer(tm) ==
    /\ tm \in debounce.timers
    /\ debounce' = [debounce EXCEPT
                      !.timers = @ \ {tm},
                      !.map = {e \in @ : e.key # tm.key},
                      !.ran = Append(@, [key |-> tm.key, fn |-> tm.fn,
                                         at |-> Len(debounce.log)])]
    /\ UNCHANGED DebounceRest

DebounceNext ==
    \/ \E key \in 1..MaxKeys : DebounceCall(key)
    \/ \E tm \in debounce.timers : DebounceTimer(tm)

DebounceSpec == DebounceInit /\ [][DebounceNext]_vars

(* ------------------------- reading the event log ----------------------- *)
IsProgress(e) == e.type = "playlist-apply-progress"
IsComplete(e) == e.type = "playlist-apply-complete"

ProgressEvents == SelectSeq(events, IsProgress)
CompleteIdx == {i \in 1..Len(events) : IsComplete(events[i])}
Completed == CompleteIdx # {}
Accepted == events # <<>> /\ events[1].type = "playlist-apply-started"
OpenTabs == {t \in DOMAIN tabs : tabs[t].open}

(* -------------------------------- claims ------------------------------- *)

\* C1: when playlist-apply-complete has been emitted for an accepted job
\* with N targets, exactly N playlist-apply-progress events (one terminal
\* result per target) were emitted before it, whatever the failures were.
C1_ExactlyOneResultPerTarget ==
    (Accepted /\ Completed) => Len(ProgressEvents) = events[1].total

\* C2: the done values of the successive progress events of a job are
\* 1, 2, ...: each one more than the previous, the first 1, and the last
\* one before playlist-apply-complete equals total.
C2_DoneCountsOneToTotal ==
    /\ \A i \in 1..Len(ProgressEvents) : ProgressEvents[i].done = i
    /\ (Completed /\ ProgressEvents # <<>>) =>
          ProgressEvents[Len(ProgressEvents)].done =
          ProgressEvents[Len(ProgressEvents)].total

\* C3: when no videoWorkerResult ever arrives, a job whose worker has been
\* asked to run (its per-target timer is armed) still ends by emitting
\* playlist-apply-complete, unless a later start() call replaced it: it is
\* never hung indefinitely.
C3_TimeoutForwardProgress ==
    \A j \in 1..MaxStarts :
        (job.id = j /\ job.videoTimer # 0)
            ~> (starts > j \/ (~HasJob /\ Completed))

\* C4: at most one hidden tab created by the runner is open at any time.
C4_AtMostOneHiddenTab == Cardinality(OpenTabs) <= 1

\* C5: playlist-apply-complete is emitted at most once, it directly follows
\* the progress event of the last target (done = total), and no event of
\* the job follows it.
C5_CompleteOnceAfterLastResult ==
    /\ Cardinality(CompleteIdx) <= 1
    /\ \A i \in CompleteIdx :
          /\ i = Len(events)
          /\ i > 1
          /\ IsProgress(events[i - 1])
          /\ events[i - 1].done = events[i].total

\* C6: a start() call emits exactly one of playlist-apply-started and
\* playlist-apply-error.  It emits the error, creates no job and requests
\* no tab when there is no video URL or when the operation is Set without
\* playlist ids and names; otherwise it emits started{total}, total being
\* the number of distinct normalized URLs, and creates the job.
C6_Targets(p) ==
    {stripParams(toAbs(p.videoUrls[i])) : i \in 1..Len(p.videoUrls)}

C6_MustReject(p) ==
    \/ C6_Targets(p) = {}
    \/ (~p.clearAll /\ Len(p.playlistIds) = 0 /\ Len(p.playlistNames) = 0)

C6_StartedXorError ==
    [][\A p \in Payloads : start(p) =>
          /\ Len(events') = 1
          /\ IF C6_MustReject(p)
             THEN /\ events'[1].type = "playlist-apply-error"
                  /\ job' = NoJob
                  /\ creating' = creating
                  /\ OpenTabs' \subseteq OpenTabs
             ELSE /\ events'[1].type = "playlist-apply-started"
                  /\ events'[1].total = Cardinality(C6_Targets(p))
                  /\ job'.id = starts'
                  /\ job'.total = Cardinality(C6_Targets(p))
                  /\ Len(creating') = Len(creating) + 1]_vars

\* a rejected start() followed by an accepted Clear job that names no
\* playlist at all
C6_Witness ==
    /\ starts = 2
    /\ tabs = <<>>
    /\ Len(creating) = 1
    /\ job.id = 2
    /\ job.clearAll
    /\ job.playlistIds = <<>>
    /\ job.playlistNames = <<>>
    /\ Accepted

\* C7: a target gets one terminal outcome: of a worker result and a timeout
\* that belong to the same target, only the first one is counted and
\* reported; the later one is a no-op.
C7_OneOutcomePerTarget ==
    \A i, k \in 1..Len(events) :
        (/\ i < k
         /\ IsProgress(events[i]) /\ IsProgress(events[k])
         /\ events[i].src.cause \in {"result", "timeout"}
         /\ events[k].src.cause \in {"result", "timeout"})
        => ~(/\ events[i].src.job = events[k].src.job
             /\ events[i].src.url = events[k].src.url)

\* C8: successCount of playlist-apply-complete is the number of targets
\* whose worker replied ok:true.
C8_SuccessCountCountsSuccesses ==
    \A i \in CompleteIdx :
        events[i].successCount =
        Cardinality({k \in 1..Len(events) :
                        /\ IsProgress(events[k])
                        /\ events[k].note \in {"Cleared", "Updated"}})

\* C9: once start() has been called again, nothing of an earlier job is
\* left: no hidden tab it asked for is open, no timer it armed is pending
\* and no message handler made for it is registered.
C9_PreviousJobTornDown ==
    /\ \A t \in OpenTabs : tabs[t].owner = starts
    /\ \A tm \in timers : tm.job = starts
    /\ \A h \in handlers : tabs[h].owner = starts

\* C10: a running job never refers to a hidden tab that has been removed.
C10_NoRemovedTabInJob ==
    (HasJob /\ job.tabId # 0) => IsOpen(tabs, job.tabId)

\* C11: a torn-down job is silent: no event is caused by a callback of a
\* job that a later start() call has torn down, whatever callbacks of that
\* job were still in flight.  (events holds what was emitted since the
\* last start() call, which is call number `starts`.)
C11_CancelledJobIsSilent ==
    \A i \in 1..Len(events) : events[i].src.job \in {0, starts}

C13_CreateFailureIsOneResult ==
    [][(/\ HasJob
        /\ creating # <<>>
        /\ creating' = Tail(creating)
        /\ Len(tabs') = Len(tabs))
       => (/\ job'.id = job.id
           /\ job'.done = job.done + 1
           /\ Len(events') = Len(events) + 1
           /\ IsProgress(events'[Len(events')]))]_vars

\* C14: 0 <= done <= total in every state of a job, the states inside a
\* handler that sendProgress reports (done, total of the event) included.
C14_DoneWithinTotal ==
    /\ 0 <= job.done /\ job.done <= job.total
    /\ \A i \in 1..Len(events) :
          IsProgress(events[i]) =>
              (0 <= events[i].done /\ events[i].done <= events[i].total)

\* C17: once the job has ended, cleanup() and next() change nothing: a
\* second cleanup() after a cleanup(), or a next() after it, leaves the
\* state (tabs, listeners, timers, events) as the first call left it.
C17_TeardownIdempotent ==
    LET s == cleanup(Cur)
    IN  /\ cleanup(s) = s
        /\ next(s) = s
        /\ ~HasJob => (cleanup(Cur) = Cur /\ next(Cur) = Cur)

\* a job has completed and a hidden tab and a timer are still around, which
\* a further cleanup() or next() must leave alone
C17_Witness ==
    /\ ~HasJob
    /\ Completed
    /\ OpenTabs # {}
    /\ timers # {}

\* C20: the worker is injected and asked to run once per target: no target
\* of a job has two per-target timers armed for it.
C20_OneInjectionPerTarget ==
    \A a, b \in timers : (a.job = b.job /\ a.url = b.url) => a = b

\* C15 (as claimed): start() turns every submitted URL into an absolute URL
\* without query, fragment or trailing slash, and deduplicates keeping the
\* first occurrences in order.
C15_IsClean(u) ==
    u.kind = "abs" /\ ~u.query /\ ~u.hash /\ u.slashes = 0

C15_AllAbsoluteAndUnique ==
    (call.fn = "Normalize" /\ call.returned) =>
        /\ \A i \in 1..Len(call.res) : C15_IsClean(call.res[i])
        /\ \A i, k \in 1..Len(call.res) : call.res[i] = call.res[k] => i = k

\* C15 (amended): every submitted URL that parses against
\* https://rumble.com becomes the absolute URL of its page without query,
\* fragment or trailing slash; a string that does not parse is kept, only
\* slashes at its very end removed.  The queue holds each normalized URL
\* once, in the order of first occurrence, so total is the number of
\* distinct normalized URLs.
C15_Canon(u) ==
    IF u.kind \in {"abs", "rel"}
    THEN Url("abs", u.vid, FALSE, FALSE, 0)
    ELSE IF u.query \/ u.hash THEN u
         ELSE Url(u.kind, u.vid, FALSE, FALSE, 0)

C15_FirstAt(x, l) ==
    CHOOSE i \in 1..Len(l) :
        /\ C15_Canon(l[i]) = x
        /\ \A k \in 1..(i - 1) : C15_Canon(l[k]) # x

C15_NormalizedParsableAndUnique ==
    (call.fn = "Normalize" /\ call.returned) =>
        LET l == call.arg
            r == call.res
        IN  /\ {r[i] : i \in 1..Len(r)} = {C15_Canon(l[i]) : i \in 1..Len(l)}
            /\ Len(r) = Cardinality({C15_Canon(l[i]) : i \in 1..Len(l)})
            /\ \A i \in 1..Len(l) :
                  l[i].kind # "bad" =>
                      \E k \in 1..Len(r) :
                          C15_IsClean(r[k]) /\ r[k].vid = l[i].vid
            /\ \A i, k \in 1..Len(r) :
                  i < k => C15_FirstAt(r[i], l) < C15_FirstAt(r[k], l)

\* the same page submitted twice (once with query and slash) between two
\* other entries: one queue entry for it
C15_Witness ==
    /\ call.fn = "Normalize" /\ call.returned
    /\ Len(call.arg) = 3
    /\ Len(call.res) = 2
    /\ call.arg[1].kind = "rel"
    /\ call.arg[3] = Url("abs", call.arg[1].vid, TRUE, FALSE, 1)
    /\ call.arg[2].vid # call.arg[1].vid
    /\ call.res[1] = Url("abs", call.arg[1].vid, FALSE, FALSE, 0)

\* C16 (as claimed): for a directory whose titles are pairwise distinct
\* ignoring case, resolveIdsFromNames returns exactly the ids of the entries
\* whose title equals a submitted name after trimming and lower-casing both,
\* without duplicates.
C16_Fold(x) == Name(x.text, FALSE, FALSE)
C16_Lower(x) == [x EXCEPT !.upper = FALSE]

C16_Expected(names, dir) ==
    {dir[i].id : i \in {i \in 1..Len(dir) :
                          /\ dir[i].id # ""
                          /\ \E k \in 1..Len(names) :
                                /\ names[k].text # 0
                                /\ C16_Fold(names[k]) = C16_Fold(dir[i].title)}}

C16_NoDuplicates(r) == \A i, k \in 1..Len(r) : r[i] = r[k] => i = k

C16_ResolvesIgnoringCase ==
    (call.fn = "resolveIdsFromNames" /\ call.returned) =>
        LET n == call.arg.nameList
            d == call.arg.userPlaylists
            r == call.res
        IN  (\A i, k \in 1..Len(d) :
                 i # k => C16_Lower(d[i].title) # C16_Lower(d[k].title))
            => /\ {r[i] : i \in 1..Len(r)} = C16_Expected(n, d)
               /\ C16_NoDuplicates(r)

\* C16 (amended): for a directory whose titles are pairwise distinct after
\* trimming and lower-casing, resolveIdsFromNames returns exactly the
\* non-empty ids of the entries whose title equals a non-blank submitted
\* name after trimming and lower-casing both, without duplicates.
C16_ResolvesTrimmedIgnoringCase ==
    (call.fn = "resolveIdsFromNames" /\ call.returned) =>
        LET n == call.arg.nameList
            d == call.arg.userPlaylists
            r == call.res
        IN  (\A i, k \in 1..Len(d) :
                 i # k => C16_Fold(d[i].title) # C16_Fold(d[k].title))
            => /\ {r[i] : i \in 1..Len(r)} = C16_Expected(n, d)
               /\ C16_NoDuplicates(r)

\* directory {"My Favorites" -> pl_1}, names ["my favorites"]: [pl_1]
C16_Witness ==
    /\ call.fn = "resolveIdsFromNames" /\ call.returned
    /\ call.arg.userPlaylists = <<[title |-> Name(1, TRUE, FALSE), id |-> "pl_1"]>>
    /\ call.arg.nameList = <<Name(1, FALSE, FALSE)>>
    /\ call.res = <<"pl_1">>

\* C18 (as claimed): a Set job without ids whose names all fail to resolve
\* against the cached directory is rejected by start(): error event, no
\* job, no tab requested.
C18_Directories == {d \in Directories : Len(d) <= 1}

C18_UnresolvableSet(p, d) ==
    /\ ~p.clearAll
    /\ p.playlistIds = <<>>
    /\ resolveIdsFromNames(p.playlistNames, d) = <<>>

C19_AwaitingMask ==
    /\ ~streamer.closed
    /\ streamer.eligible
    /\ streamer.want
    /\ ~streamer.masked

C19_EveryLoadMasked == C19_AwaitingMask ~> ~C19_AwaitingMask

\* C25: while a job has an active target, done + length(queue) + 1 = total:
\* every target is reported, active or queued, none twice and none lost.
C25_TargetsAccountedFor ==
    (HasJob /\ job.currentUrl # NoUrl) =>
        job.done + Len(job.queue) + 1 = job.total

\* C26: a callback of the runner (tab creation, script injection, timer)
\* only runs while the job it was set up for is the current job: it never
\* runs with job = null and never on a job that replaced its own.
C26_CallbacksFindOwnJob ==
    [][/\ (creating # <<>> /\ creating' = Tail(creating)) =>
              (HasJob /\ Head(creating).owner = job.id)
       /\ (injecting # <<>> /\ injecting' = Tail(injecting)) =>
              (HasJob /\ tabs[Head(injecting)].owner = job.id)
       /\ \A tm \in timers \ timers' :
              (HasJob /\ tm.id = job.videoTimer /\ tm.job = job.id)]_vars

\* C27: the URL a worker result is reported for in a progress event is the
\* URL that was loaded in the tab the worker ran in, and no URL gets two
\* worker results, also when start() calls follow one another closely.
C27_ReportedUrlIsLoadedUrl ==
    \A i \in 1..Len(events) :
        (IsProgress(events[i]) /\ events[i].src.cause = "result") =>
            /\ events[i].url = events[i].src.url
            /\ \A k \in 1..Len(events) :
                  (/\ IsProgress(events[k])
                   /\ events[k].src.cause = "result"
                   /\ events[k].url = events[i].url) => k = i

\* C28: a start() call rejected by validation leaves a running job as it
\* was: job record, hidden tabs and timers are unchanged.
C28_RejectedStartKeepsJob ==
    [][(/\ HasJob
        /\ starts' = starts + 1
        /\ events'[1].type = "playlist-apply-error") =>
           (job' = job /\ tabs' = tabs /\ timers' = timers)]_vars

\* C21: one creation of the offscreen document at a time, and a caller of
\* setupOffscreenDocument that does not start the creation itself returns
\* only when no creation is in flight: it waits for the pending promise.
C21_OneCreationAwaitedByAll ==
    [][/\ Cardinality(harvest'.creations) <= 1
       /\ \A h \in Harvests :
             (Pc(h) = "setup_resume" /\ harvest'.proc[h].pc = "fetch") =>
                 harvest.promise = 0
       /\ \A h \in Harvests :
             (Pc(h) = "wait" /\ harvest'.proc[h].pc = "fetch") =>
                 harvest.proc[h].awaiting \in harvest.settled]_vars

\* C22: closeOffscreenDocument closes the document only when no harvest is
\* between its setupOffscreenDocument call and the answer to its last
\* parse request.
C22_InUse == {"setup", "setup_resume", "wait", "fetch", "parsing"}

C22_ClosedOnlyWhenUnused ==
    [][(/\ harvest'.closers # harvest.closers
        /\ harvest.doc # "none"
        /\ harvest'.doc = "none") =>
           \A g \in Harvests : Pc(g) \notin C22_InUse]_vars

\* one harvest has run closeOffscreenDocument, which left the document
\* open because the other harvest is waiting for a parse result
C22_Witness ==
    \E h, g \in Harvests :
        /\ h # g
        /\ harvest.api
        /\ Pc(h) = "idle"
        /\ harvest.proc[h].runs = 1
        /\ harvest.proc[h].got = h
        /\ harvest.closers = {}
        /\ Pc(g) = "parsing"
        /\ harvest.doc = "ready"

\* C29: a parseHtmlWithOffscreen call resolves with the parse-result of
\* its own request.
C29_OwnParseResult ==
    \A h \in Harvests :
        harvest.proc[h].got # "none" => harvest.proc[h].got = h

\* C30: once the injected scraper has sent playlistsFromScrape, the scrape
\* resolves: tab closed, both table entries removed, isPlaylistScraping
\* false again.
C30_ScrapeResolved ==
    /\ harvest.scrape.tab = "closed"
    /\ ~harvest.scrape.pending
    /\ ~harvest.scrape.resolver
    /\ ~harvest.scraping["playlists"]

C30_ScrapeListResolves == harvest.scrape.sent ~> C30_ScrapeResolved

\* C23: the stored playlist directory (userPlaylists) is not written while
\* the runner has a job.
C23_DirectoryStableDuringJob ==
    [][harvest'.userPlaylists # harvest.userPlaylists => ~HasJob]_vars

\* C24: per key at most one invocation is pending and __RLO_DEBOUNCE holds
\* exactly the pending ones; a function runs at most once and only if no
\* later call for its key was made before it fired; the last call of every
\* key is pending or has run, whatever was called for other keys.
C24_CallsOf(key) == {n \in 1..Len(debounce.log) : debounce.log[n] = key}

C24_OnePendingPerKey ==
    /\ \A a, b \in debounce.timers : a.key = b.key => a = b
    /\ debounce.map = {[key |-> tm.key, id |-> tm.id] : tm \in debounce.timers}
    /\ \A i, k \in 1..Len(debounce.ran) :
          debounce.ran[i].fn = debounce.ran[k].fn => i = k
    /\ \A i \in 1..Len(debounce.ran) :
          \A n \in C24_CallsOf(debounce.ran[i].key) :
              ~(debounce.ran[i].fn < n /\ n <= debounce.ran[i].at)
    /\ \A key \in 1..MaxKeys :
          \A n \in C24_CallsOf(key) :
              (\A m \in C24_CallsOf(key) : m <= n) =>
                  \/ \E tm \in debounce.timers : tm.fn = n
                  \/ \E i \in 1..Len(debounce.ran) : debounce.ran[i].fn = n

\* key 1 was called twice within the delay and only the second function
\* ran, while the call for key 2 is still pending
C24_Witness ==
    /\ debounce.log = <<1, 1, 2>>
    /\ debounce.ran = <<[key |-> 1, fn |-> 2, at |-> 3]>>
    /\ debounce.map = {[key |-> 2, id |-> 3]}

====
